---- MODULE Spec2Model ----
(***************************************************************************)
(* A model of the utilities of src/src/lib/utils/index.ts:                  *)
(*   clickOutside      the outside-click binder (listener on document.body) *)
(*   isElementVisible  the visibility predicate                             *)
(*   formatTime        the clock-string formatter                           *)
(* Each utility has its own specification (SpecClick, SpecVisible,          *)
(* SpecTime) over the variables below; the variables of the other two stay  *)
(* at their initial values.                                                 *)
(***************************************************************************)
EXTENDS Integers, Sequences, FiniteSets, TLC

VARIABLES
    listeners,  \* clickOutside: the click listeners of document.body, in order
    binder,     \* clickOutside: each binder's closure (element, callbackFunction)
    latest,     \* history: the callback most recently supplied to each binder
    supplied,   \* history: every callback supplied to each binder so far
    destroys,   \* history: how often destroy() was called on each binder (capped)
    invoked,    \* history: the callbacks the latest operation invoked, in order
    last,       \* history: the latest operation
    element,    \* isElementVisible: the argument (an element, or none)
    window,     \* isElementVisible: the viewport the call reads
    visible,    \* isElementVisible: the value returned
    vpc,        \* isElementVisible: "call" before the call, "done" after it
    seconds,    \* formatTime: the argument of the call
    result,     \* formatTime: the completion of the call (return value or throw)
    pc          \* formatTime: "call" before the call, "done" after it

clickVars == <<listeners, binder, latest, supplied, destroys, invoked, last>>

visibleVars == <<element, window, visible, vpc>>

timeVars == <<seconds, result, pc>>

vars == <<listeners, binder, latest, supplied, destroys, invoked, last,
          element, window, visible, vpc, seconds, result, pc>>

(***************************************************************************)
(* Bounds of the model.                                                    *)
(***************************************************************************)
\* whole seconds 0..MaxSod are all drawn on day 0 (covers the 3600 boundary)
MaxSod == 3700
\* width of the windows drawn around each hour boundary of the sampled days
MaxEdge == 2
\* the count of destroy() calls on a binder is kept up to this cap
DestroyCap == 2
\* rectangles have their origin in -MaxOff..MaxCoord, their sides in 0..MaxSide
MaxCoord == 2
MaxSide == 2
\* rectangles start up to MaxOff before the viewport's origin
MaxOff == 3
\* the side of the viewport
MaxView == 3

(***************************************************************************)
(* JavaScript numbers.  A finite number x is held exactly as two limbs,     *)
(*     x = hi * Chunk + lo / Sub      with 0 <= lo < Chunk * Sub,           *)
(* so that values beyond 32 bits (8.64e15 ms, the Date range) fit TLC's     *)
(* integers.  Chunk is the number of milliseconds in a day, which makes the *)
(* hi limb of a millisecond count its day number.  NaN and the infinities   *)
(* are separate kinds.  -0 is not distinguished from +0.                    *)
(***************************************************************************)
Chunk == 24 * 60 * 60 * 1000
Sub == 2 ^ 4
SecPerDay == 24 * 60 * 60

JSValue(t, b, k, hi, lo, s) ==
    [t |-> t, b |-> b, k |-> k, hi |-> hi, lo |-> lo, s |-> s]

Undefined == JSValue("undefined", FALSE, "none", 0, 0, <<>>)
Null == JSValue("null", FALSE, "none", 0, 0, <<>>)
Bool(b) == JSValue("boolean", b, "none", 0, 0, <<>>)
Str(s) == JSValue("string", FALSE, "none", 0, 0, s)
NaN == JSValue("number", FALSE, "NaN", 0, 0, <<>>)
PosInfinity == JSValue("number", FALSE, "Infinity", 0, 0, <<>>)
NegInfinity == JSValue("number", FALSE, "-Infinity", 0, 0, <<>>)
Fin(hi, lo) == JSValue("number", FALSE, "finite", hi, lo, <<>>)

\* the number days * 86400 + sod + f / Sub  (a count of seconds)
Secs(days, sod, f) ==
    Fin(days \div 1000, ((days % 1000) * SecPerDay + sod) * Sub + f)

\* a small non-negative integer
Int32(n) == Fin(n \div Chunk, (n % Chunk) * Sub)

Digits == <<"0", "1", "2", "3", "4", "5", "6", "7", "8", "9">>

IsDigit(c) == \E i \in 1..10 : Digits[i] = c

DigitValue(c) == (CHOOSE i \in 1..10 : Digits[i] = c) - 1

IsSpace(c) == c = " "

RECURSIVE TrimLeft(_)
TrimLeft(s) ==
    IF s # <<>> /\ IsSpace(Head(s)) THEN TrimLeft(Tail(s)) ELSE s

RECURSIVE TrimRight(_)
TrimRight(s) ==
    IF s # <<>> /\ IsSpace(s[Len(s)]) THEN TrimRight(SubSeq(s, 1, Len(s) - 1)) ELSE s

RECURSIVE DecimalValue(_)
DecimalValue(s) ==
    IF s = <<>> THEN 0
    ELSE DecimalValue(SubSeq(s, 1, Len(s) - 1)) * 10 + DigitValue(s[Len(s)])

\* StringToNumber, for the strings the model draws: white space is trimmed,
\* the empty string is +0, a run of decimal digits is its value, "Infinity" is
\* +Infinity, and text that is no numeric literal is NaN.
StringToNumber(s) ==
    LET t == TrimRight(TrimLeft(s))
    IN  IF t = <<>> THEN Int32(0)
        ELSE IF \A i \in 1..Len(t) : IsDigit(t[i]) THEN Int32(DecimalValue(t))
        ELSE IF t = <<"I", "n", "f", "i", "n", "i", "t", "y">> THEN PosInfinity
        ELSE NaN

\* ToNumber: the coercion behind isNaN(x), x >= y and x * y
ToNumber(v) ==
    CASE v.t = "number" -> v
      [] v.t = "undefined" -> NaN
      [] v.t = "null" -> Int32(0)
      [] v.t = "boolean" -> IF v.b THEN Int32(1) ELSE Int32(0)
      [] v.t = "string" -> StringToNumber(v.s)

\* the global isNaN(v)
isNaN(v) == ToNumber(v).k = "NaN"

\* x < y on numbers: "true", "false", or "undefined" when either is NaN
NumberLessThan(x, y) ==
    CASE x.k = "NaN" \/ y.k = "NaN" -> "undefined"
      [] x.k = "Infinity" -> "false"
      [] x.k = "-Infinity" -> IF y.k = "-Infinity" THEN "false" ELSE "true"
      [] y.k = "Infinity" -> "true"
      [] y.k = "-Infinity" -> "false"
      [] OTHER -> IF x.hi < y.hi \/ (x.hi = y.hi /\ x.lo < y.lo)
                  THEN "true" ELSE "false"

\* v >= w: not (v < w), and false when the comparison is undefined
GreaterOrEqual(v, w) == NumberLessThan(ToNumber(v), ToNumber(w)) = "false"

\* v * 1000, exact: the lo limb is split so that no step leaves 32 bits
Times1000(v) ==
    LET x == ToNumber(v)
        whole == x.lo \div Sub
        f == x.lo % Sub
        a == whole \div SecPerDay
        b == whole % SecPerDay
    IN  IF x.k # "finite" THEN x
        ELSE Fin(x.hi * 1000 + a,
                 (b * 1000 + ((f * 1000) \div Sub)) * Sub + ((f * 1000) % Sub))

(***************************************************************************)
(* Date.  A time value is NaN (valid = FALSE) or an integral count of       *)
(* milliseconds, held as its day number and the milliseconds within it.     *)
(***************************************************************************)
MaxDateDays == 10 ^ 8

InvalidDate == [valid |-> FALSE, day |-> 0, ms |-> 0]

\* ToIntegerOrInfinity of a finite number: truncation towards zero
Truncate(x) ==
    LET whole == x.lo \div Sub
    IN  IF x.hi >= 0 \/ x.lo % Sub = 0 THEN [day |-> x.hi, ms |-> whole]
        ELSE IF whole + 1 = Chunk THEN [day |-> x.hi + 1, ms |-> 0]
        ELSE [day |-> x.hi, ms |-> whole + 1]

\* TimeClip: NaN unless finite and |time| <= 8.64e15 ms (10^8 days)
TimeClip(x) ==
    IF x.k # "finite" THEN InvalidDate
    ELSE IF x.hi > MaxDateDays \/ (x.hi = MaxDateDays /\ x.lo > 0)
            \/ x.hi < -MaxDateDays
    THEN InvalidDate
    ELSE [valid |-> TRUE, day |-> Truncate(x).day, ms |-> Truncate(x).ms]

\* new Date(value) for a Number value
NewDate(value) == TimeClip(value)

\* the proleptic Gregorian date of a day number (days since 1970-01-01)
CivilFromDays(day) ==
    LET z == day + 719468
        era == z \div 146097
        doe == z % 146097
        yoe == (doe - doe \div 1460 + doe \div 36524 - doe \div 146096) \div 365
        doy == doe - (365 * yoe + yoe \div 4 - yoe \div 100)
        mp == (5 * doy + 2) \div 153
        m == IF mp < 10 THEN mp + 3 ELSE mp - 9
    IN  [year |-> yoe + era * 400 + (IF m <= 2 THEN 1 ELSE 0),
         month |-> m,
         date |-> doy - (153 * mp + 2) \div 5 + 1]

RECURSIVE Pad(_, _)
\* the decimal digits of n >= 0, zero-padded to at least w characters
Pad(n, w) ==
    IF n < 10 /\ w <= 1 THEN <<Digits[n + 1]>>
    ELSE Pad(n \div 10, w - 1) \o <<Digits[(n % 10) + 1]>>

\* the year of an ISO string: four digits, or a sign and six digits
IsoYear(y) ==
    IF y >= 0 /\ y <= 9999 THEN Pad(y, 4)
    ELSE IF y < 0 THEN <<"-">> \o Pad(-y, 6)
    ELSE <<"+">> \o Pad(y, 6)

\* Date.prototype.toISOString: YYYY-MM-DDTHH:mm:ss.sssZ, or a RangeError
toISOString(date) ==
    IF ~date.valid THEN [threw |-> TRUE, error |-> "RangeError", value |-> <<>>]
    ELSE LET c == CivilFromDays(date.day)
             t == date.ms
         IN  [threw |-> FALSE, error |-> "",
              value |-> IsoYear(c.year) \o <<"-">> \o Pad(c.month, 2) \o <<"-">>
                        \o Pad(c.date, 2) \o <<"T">>
                        \o Pad(t \div 3600000, 2) \o <<":">>
                        \o Pad(((t \div 60000) % 60), 2) \o <<":">>
                        \o Pad(((t \div 1000) % 60), 2) \o <<".">>
                        \o Pad(t % 1000, 3) \o <<"Z">>]

Min(a, b) == IF a < b THEN a ELSE b

Max(a, b) == IF a > b THEN a ELSE b

\* String.prototype.substring(start, end): both clamped to the string, swapped
\* when start > end; a throw of the receiver's evaluation propagates
substring(str, start, end) ==
    LET len == Len(str.value)
        s == Min(Max(start, 0), len)
        e == Min(Max(end, 0), len)
    IN  IF str.threw THEN str
        ELSE [str EXCEPT !.value = SubSeq(str.value, Min(s, e) + 1, Max(s, e))]

Return(chars) == [threw |-> FALSE, error |-> "", value |-> chars]

\* a faulty variant: the hour form chosen from one minute on
formatTimeFromAMinute(s) ==
    IF isNaN(s) THEN Return(<<"-", "-", ":", "-", "-">>)
    ELSE IF GreaterOrEqual(s, Int32(60))
    THEN substring(toISOString(NewDate(Times1000(s))), 11, 16)
    ELSE substring(toISOString(NewDate(Times1000(s))), 14, 19)

\* formatTime(seconds)
formatTime(s) ==
    IF isNaN(s) THEN Return(<<"-", "-", ":", "-", "-">>)
    ELSE IF GreaterOrEqual(s, Int32(60 * 60))
    THEN substring(toISOString(NewDate(Times1000(s))), 11, 16)
    ELSE substring(toISOString(NewDate(Times1000(s))), 14, 19)

(***************************************************************************)
(* The arguments drawn for formatTime.                                     *)
(***************************************************************************)
\* days since the epoch around which finite arguments are drawn: the epoch,
\* the last day of year 9999 and the first of year 10000, the first day of
\* year 0 and the last of year -1, and both ends of the Date range
SampleDays ==
    {0, 1, -1, 2, 2932896, 2932897, -719528, -719529,
     MaxDateDays - 1, MaxDateDays, -MaxDateDays, -MaxDateDays - 1}

EdgeSods ==
    UNION {{h * 3600 + e : e \in 0..MaxEdge} : h \in 0..23}
    \cup {SecPerDay - 1 - e : e \in 0..MaxEdge}
    \cup {59, 60, 75, 3599, 3661}

FiniteArguments ==
    {Secs(0, s, f) : s \in 0..MaxSod, f \in {0, Sub \div 2, Sub - 1}}
    \cup {Secs(d, s, f) : d \in SampleDays, s \in EdgeSods, f \in {0, 1, Sub - 1}}

StringArguments ==
    {Str(<<>>), Str(<<" ">>), Str(<<"a", "b", "c">>), Str(<<"7", "5">>),
     Str(<<"1", "2", "p", "x">>), Str(<<"3", "6", "6", "1">>)}

Arguments ==
    FiniteArguments \cup StringArguments
    \cup {NaN, PosInfinity, NegInfinity, Undefined, Null, Bool(TRUE), Bool(FALSE)}

NoResult == [threw |-> FALSE, error |-> "", value |-> <<>>]

(***************************************************************************)
(* clickOutside.  The document is a small tree under document.body; a      *)
(* click is a click event dispatched to document.body's listeners, its     *)
(* target a node of the tree.  Callbacks are opaque: invoking one is        *)
(* recorded and has no effect on the binders.                              *)
(***************************************************************************)
Binders == {"b1", "b2"}

Callbacks == {"f", "g"}

Nodes == {"body", "panel", "item", "leaf", "other"}

parentNode ==
    [n \in Nodes |->
        CASE n = "body" -> "none"
          [] n = "panel" -> "body"
          [] n = "item" -> "panel"
          [] n = "leaf" -> "item"
          [] n = "other" -> "body"]

\* a faulty variant: containment that sees the element itself and not its descendants
containsSelfOnly(el, node) == node = el

RECURSIVE contains(_, _)
\* Node.contains: node is el or a descendant of el
contains(el, node) ==
    IF node = "none" THEN FALSE
    ELSE IF node = el THEN TRUE
    ELSE contains(el, parentNode[node])

NoBinder == [created |-> FALSE, element |-> "none", callbackFunction |-> "none"]

\* the latest operation; none of the binder's statements can throw
Op(op, b, target) == [op |-> op, binder |-> b, target |-> target, threw |-> FALSE]

\* EventTarget.addEventListener: appended unless the same listener is present
addEventListener(ls, b) ==
    IF \E i \in 1..Len(ls) : ls[i] = b THEN ls ELSE Append(ls, b)

\* a faulty variant: a removal that removes nothing
removeNothing(ls, b) == ls

\* a faulty variant: a removal that registers the listener when it is absent
toggleEventListener(ls, b) ==
    IF \E i \in 1..Len(ls) : ls[i] = b
    THEN SelectSeq(ls, LAMBDA x : x # b)
    ELSE Append(ls, b)

\* EventTarget.removeEventListener: the listener is removed if present
removeEventListener(ls, b) == SelectSeq(ls, LAMBDA x : x # b)

\* onClick(event) of binder b: the callbacks it invokes
onClick(b, target) ==
    IF ~contains(binder[b].element, target)
    THEN <<[binder |-> b, callback |-> binder[b].callbackFunction]>>
    ELSE <<>>

RECURSIVE Dispatch(_, _)
\* the listeners of document.body run in the order of their registration
Dispatch(ls, target) ==
    IF ls = <<>> THEN <<>>
    ELSE onClick(Head(ls), target) \o Dispatch(Tail(ls), target)

ClickAtRest ==
    /\ listeners = <<>>
    /\ binder = [b \in Binders |-> NoBinder]
    /\ latest = [b \in Binders |-> "none"]
    /\ supplied = [b \in Binders |-> {}]
    /\ destroys = [b \in Binders |-> 0]
    /\ invoked = <<>>
    /\ last = Op("none", "none", "none")

\* clickOutside(element, callbackFunction): a new binder b
ClickOutside(b, el, callbackFunction) ==
    /\ ~binder[b].created
    /\ binder' = [binder EXCEPT ![b] = [created |-> TRUE, element |-> el,
                                        callbackFunction |-> callbackFunction]]
    /\ listeners' = addEventListener(listeners, b)
    /\ latest' = [latest EXCEPT ![b] = callbackFunction]
    /\ supplied' = [supplied EXCEPT ![b] = {callbackFunction}]
    /\ invoked' = <<>>
    /\ last' = Op("clickOutside", b, "none")
    /\ UNCHANGED <<destroys, visibleVars, timeVars>>

\* a faulty variant: an assignment that keeps the old callback
keepCallback(b, newCallbackFunction) == binder

\* callbackFunction = newCallbackFunction, in the closure of binder b
assignCallback(b, newCallbackFunction) ==
    [binder EXCEPT ![b].callbackFunction = newCallbackFunction]

\* a faulty variant: an update that registers the listener again
UpdateReRegisters(b, newCallbackFunction) ==
    /\ binder[b].created
    /\ binder' = assignCallback(b, newCallbackFunction)
    /\ listeners' = addEventListener(listeners, b)
    /\ latest' = [latest EXCEPT ![b] = newCallbackFunction]
    /\ supplied' = [supplied EXCEPT ![b] = @ \cup {newCallbackFunction}]
    /\ invoked' = <<>>
    /\ last' = Op("update", b, "none")
    /\ UNCHANGED <<destroys, visibleVars, timeVars>>

\* update(newCallbackFunction) on the handle of binder b
Update(b, newCallbackFunction) ==
    /\ binder[b].created
    /\ binder' = assignCallback(b, newCallbackFunction)
    /\ latest' = [latest EXCEPT ![b] = newCallbackFunction]
    /\ supplied' = [supplied EXCEPT ![b] = @ \cup {newCallbackFunction}]
    /\ invoked' = <<>>
    /\ last' = Op("update", b, "none")
    /\ UNCHANGED <<listeners, destroys, visibleVars, timeVars>>

\* destroy() on the handle of binder b
Destroy(b) ==
    /\ binder[b].created
    /\ listeners' = removeEventListener(listeners, b)
    /\ destroys' = [destroys EXCEPT ![b] = IF @ < DestroyCap THEN @ + 1 ELSE @]
    /\ invoked' = <<>>
    /\ last' = Op("destroy", b, "none")
    /\ UNCHANGED <<binder, latest, supplied, visibleVars, timeVars>>

\* a click event with this target reaches document.body
Click(target) ==
    /\ invoked' = Dispatch(listeners, target)
    /\ last' = Op("click", "none", target)
    /\ UNCHANGED <<listeners, binder, latest, supplied, destroys, visibleVars, timeVars>>

(***************************************************************************)
(* isElementVisible.                                                       *)
(***************************************************************************)
NoElement ==
    [present |-> FALSE, offsetParent |-> "null",
     rect |-> [x |-> 0, y |-> 0, width |-> 0, height |-> 0],
     style |-> [display |-> "none", visibility |-> "hidden", opacity |-> "0"]]

\* the edges of a DOMRect (its width and height are not negative here)
RectTop(rect) == rect.y

RectLeft(rect) == rect.x

RectBottom(rect) == rect.y + rect.height

RectRight(rect) == rect.x + rect.width

\* a || b on numbers: a unless it is 0
OrElse(a, b) == IF a # 0 THEN a ELSE b

isInDOM(el) == el.offsetParent # "null"

hasSize(el) == el.rect.width > 0 /\ el.rect.height > 0

isDisplayed(el) == el.style.display # "none"

\* a faulty variant: the opacity compared as a number
isVisibleNumeric(el) ==
    el.style.visibility # "hidden" /\ el.style.opacity \notin {"0", "0.0"}

isVisible(el) == el.style.visibility # "hidden" /\ el.style.opacity # "0"

isInViewport(el, w) ==
    /\ RectTop(el.rect) >= 0
    /\ RectLeft(el.rect) >= 0
    /\ RectBottom(el.rect) <= OrElse(w.innerHeight, w.clientHeight)
    /\ RectRight(el.rect) <= OrElse(w.innerWidth, w.clientWidth)

\* isElementVisible(element), read in window w
isElementVisible(el, w) ==
    IF ~el.present THEN FALSE
    ELSE isInDOM(el) /\ hasSize(el) /\ isDisplayed(el) /\ isVisible(el)
         /\ isInViewport(el, w)

Rects ==
    [x : -MaxOff..MaxCoord, y : -MaxOff..MaxCoord,
     width : 0..MaxSide, height : 0..MaxSide]

Styles ==
    [display : {"none", "block"}, visibility : {"visible", "hidden"},
     opacity : {"0", "0.0", "1"}]

Elements ==
    {NoElement}
    \cup [present : {TRUE}, offsetParent : {"null", "body"}, rect : Rects,
          style : Styles]

\* window.innerWidth/innerHeight are the viewport's side, or 0; the
\* documentElement's client box is one less (a scroll bar)
Windows ==
    [innerWidth : {0, MaxView}, innerHeight : {0, MaxView},
     clientWidth : {MaxView - 1}, clientHeight : {MaxView - 1}]

\* the utilities at rest, in the specifications of the others
VisibleAtRest ==
    /\ element = NoElement
    /\ window = [innerWidth |-> MaxView, innerHeight |-> MaxView,
                 clientWidth |-> MaxView - 1, clientHeight |-> MaxView - 1]
    /\ visible = FALSE
    /\ vpc = "call"

TimeAtRest ==
    /\ seconds = NaN
    /\ result = NoResult
    /\ pc = "call"

InitClick == ClickAtRest /\ VisibleAtRest /\ TimeAtRest

NextClick ==
    \/ \E b \in Binders, el \in Nodes, f \in Callbacks : ClickOutside(b, el, f)
    \/ \E b \in Binders, f \in Callbacks : Update(b, f)
    \/ \E b \in Binders : Destroy(b)
    \/ \E target \in Nodes : Click(target)

SpecClick == InitClick /\ [][NextClick]_vars

InitVisible ==
    /\ element \in Elements
    /\ window \in Windows
    /\ visible = FALSE
    /\ vpc = "call"
    /\ ClickAtRest
    /\ TimeAtRest

\* a call of isElementVisible(element)
IsElementVisibleCall ==
    /\ vpc = "call"
    /\ visible' = isElementVisible(element, window)
    /\ vpc' = "done"
    /\ UNCHANGED <<element, window, clickVars, timeVars>>

NextVisible == IsElementVisibleCall

SpecVisible == InitVisible /\ [][NextVisible]_vars

InitTime ==
    /\ seconds \in Arguments
    /\ result = NoResult
    /\ pc = "call"
    /\ ClickAtRest
    /\ VisibleAtRest

\* a call of formatTime(seconds)
FormatTimeCall ==
    /\ pc = "call"
    /\ result' = formatTime(seconds)
    /\ pc' = "done"
    /\ UNCHANGED <<seconds, clickVars, visibleVars>>

NextTime == FormatTimeCall

SpecTime == InitTime /\ [][NextTime]_vars

(***************************************************************************)
(* The claims.  Registered(b) is stated on the history of calls, not on    *)
(* the listener list: b was created and destroy() was never called on it.  *)
(***************************************************************************)
Registered(b) == binder[b].created /\ destroys[b] = 0

RECURSIVE IsDescendant(_, _)
\* node is a proper descendant of el: el is its parent, or an ancestor of its parent
IsDescendant(node, el) ==
    /\ node \in Nodes
    /\ parentNode[node] # "none"
    /\ (parentNode[node] = el \/ IsDescendant(parentNode[node], el))

\* node is el or a descendant of it
Inside(node, el) == node = el \/ IsDescendant(node, el)

Range(f) == {f[i] : i \in DOMAIN f}

\* the callbacks a click invoked on behalf of binder b
InvokedFor(b) == SelectSeq(invoked, LAMBDA e : e.binder = b)

\* C1: once destroy() has been called on a binder, no later click invokes a
\* callback on its behalf, whatever the target and whatever clicks, updates
\* and destroys came between.
C1_NoCallbackAfterDestroy ==
    \A i \in 1..Len(invoked) : destroys[invoked[i].binder] = 0

\* an outside click on a destroyed binder whose callback had been replaced
C1_Witness ==
    /\ last.op = "click"
    /\ \E b \in Binders :
        /\ destroys[b] > 0
        /\ Cardinality(supplied[b]) = 2
        /\ ~Inside(last.target, binder[b].element)

\* C2: an outside click on a registered binder invokes the callback supplied
\* most recently (by clickOutside or the latest update), and no click ever
\* invokes another one: one callback is active at a time.
C2_OnlyNewestCallback ==
    /\ \A i \in 1..Len(invoked) : invoked[i].callback = latest[invoked[i].binder]
    /\ \A b \in Binders : Cardinality({e.callback : e \in Range(InvokedFor(b))}) <= 1
    /\ last.op = "click" =>
        \A b \in Binders :
            Registered(b) /\ ~Inside(last.target, binder[b].element)
            => \E i \in 1..Len(invoked) :
                   invoked[i] = [binder |-> b, callback |-> latest[b]]

\* an outside click after the callback was replaced by a different one
C2_Witness ==
    /\ last.op = "click"
    /\ \E i \in 1..Len(invoked) :
        /\ Cardinality(supplied[invoked[i].binder]) = 2
        /\ invoked[i].callback = latest[invoked[i].binder]

\* C3: a click on a registered binder's element or on a descendant of it
\* invokes nothing for that binder; a click on any other node invokes the
\* binder's current callback exactly once.
C3_InsideSilentOutsideOnce ==
    last.op = "click" =>
        \A b \in Binders :
            Registered(b) =>
                InvokedFor(b) =
                    IF Inside(last.target, binder[b].element)
                    THEN <<>>
                    ELSE <<[binder |-> b, callback |-> binder[b].callbackFunction]>>

\* one click that is inside one registered binder, on a proper descendant,
\* and outside another
C3_Witness ==
    /\ last.op = "click"
    /\ \E b \in Binders :
        /\ Registered(b)
        /\ IsDescendant(last.target, binder[b].element)
        /\ InvokedFor(b) = <<>>
    /\ \E b \in Binders : Registered(b) /\ Len(InvokedFor(b)) = 1

\* C4: a second or later destroy() on a binder does not throw, invokes no
\* callback and changes neither the listeners nor any binder.
C4_DestroyIdempotent ==
    [][\A b \in Binders :
          (destroys[b] >= 1 /\ last'.op = "destroy" /\ last'.binder = b)
          => /\ ~last'.threw
             /\ invoked' = <<>>
             /\ listeners' = listeners
             /\ binder' = binder
             /\ \A i \in 1..Len(listeners') : listeners'[i] # b]_vars

\* destroy() was just called on a binder for at least the second time
C4_Witness ==
    /\ last.op = "destroy"
    /\ destroys[last.binder] >= 2

\* C10: a binder has at most one listener on document.body, and has one
\* exactly while it is registered; so update() leaves the registration as it
\* was, also after destroy().
C10_OneListenerWhileRegistered ==
    \A b \in Binders :
        /\ Cardinality({i \in 1..Len(listeners) : listeners[i] = b}) <= 1
        /\ (\E i \in 1..Len(listeners) : listeners[i] = b) <=> Registered(b)

\* update() was just called on a destroyed binder
C10_Witness ==
    /\ last.op = "update"
    /\ destroys[last.binder] > 0
    /\ \A i \in 1..Len(listeners) : listeners[i] # last.binder

\* the viewport's side: the window's inner size, or the client size when the
\* inner size is 0
ViewportHeight == IF window.innerHeight # 0 THEN window.innerHeight ELSE window.clientHeight

ViewportWidth == IF window.innerWidth # 0 THEN window.innerWidth ELSE window.clientWidth

\* C9: isElementVisible is false without an element, and otherwise the
\* conjunction of: offsetParent non-null; width > 0 and height > 0; display
\* not "none"; visibility not "hidden" and opacity not the string "0"; the
\* rectangle within the viewport.  So zero size, display none, a rectangle
\* above the viewport or one partly outside it give false.
C9_FivePredicates ==
    vpc = "done" =>
        LET r == element.rect
            st == element.style
            top == r.y
            left == r.x
            bottom == r.y + r.height
            right == r.x + r.width
        IN  /\ ~element.present => visible = FALSE
            /\ element.present =>
                (visible <=>
                    /\ element.offsetParent # "null"
                    /\ r.width > 0 /\ r.height > 0
                    /\ st.display # "none"
                    /\ st.visibility # "hidden" /\ st.opacity # "0"
                    /\ top >= 0 /\ left >= 0
                    /\ bottom <= ViewportHeight /\ right <= ViewportWidth)
            /\ element.present /\ (r.width = 0 \/ r.height = 0) => ~visible
            /\ element.present /\ st.display = "none" => ~visible
            /\ element.present /\ bottom < 0 => ~visible
            /\ element.present
               /\ (top < 0 \/ left < 0 \/ bottom > ViewportHeight \/ right > ViewportWidth)
               => ~visible

\* an element of opacity "0.0" found visible in a window whose inner height is 0
C9_Witness ==
    /\ vpc = "done"
    /\ visible
    /\ element.style.opacity = "0.0"
    /\ window.innerHeight = 0

\* the clock string of two numbers below 100
Clock(a, b) ==
    [threw |-> FALSE, error |-> "",
     value |-> <<Digits[a \div 10 + 1], Digits[(a % 10) + 1], ":",
                 Digits[b \div 10 + 1], Digits[(b % 10) + 1]>>]

IsFiniteNumber(v) == v.t = "number" /\ v.k = "finite"

\* floor(s) mod 86400 of a finite number s of seconds (Chunk is a multiple of 86400)
WholeSecondOfDay(v) == (v.lo \div Sub) % SecPerDay

\* C5: formatTime of NaN or of a value that is no number (null, undefined,
\* a string, a boolean) is "--:--".
C5_SentinelForNonNumbers ==
    (pc = "done" /\ (seconds.t # "number" \/ seconds.k = "NaN"))
    => result = Return(<<"-", "-", ":", "-", "-">>)

\* C6: formatTime of a number other than NaN never throws and returns five
\* characters: two digits, a colon, two digits.
C6_TotalOnNumbers ==
    (pc = "done" /\ seconds.t = "number" /\ seconds.k # "NaN")
    => /\ ~result.threw
       /\ Len(result.value) = 5
       /\ result.value[3] = ":"
       /\ \A i \in {1, 2, 4, 5} : IsDigit(result.value[i])

\* C7: for 0 <= s < 3600, formatTime(s) is MM:SS with MM = floor(s / 60) and
\* SS = floor(s) mod 60.
C7_MinutesSeconds ==
    (pc = "done" /\ IsFiniteNumber(seconds) /\ seconds.hi = 0
        /\ seconds.lo < 3600 * Sub)
    => result = Clock((seconds.lo \div Sub) \div 60, (seconds.lo \div Sub) % 60)

\* formatTime(75) returned "01:15", and formatTime(3599 + 15/16) "59:59"
C7_Witness ==
    /\ pc = "done"
    /\ \/ seconds = Secs(0, 75, 0) /\ result.value = <<"0", "1", ":", "1", "5">>
       \/ seconds = Secs(0, 3599, Sub - 1) /\ result.value = <<"5", "9", ":", "5", "9">>

\* C8: for every finite s >= 3600, formatTime(s) is HH:MM with
\* HH = floor(s / 3600) mod 24 and MM = floor(s / 60) mod 60.
C8_HoursMinutes ==
    (pc = "done" /\ IsFiniteNumber(seconds)
        /\ (seconds.hi > 0 \/ (seconds.hi = 0 /\ seconds.lo >= 3600 * Sub)))
    => result = Clock(WholeSecondOfDay(seconds) \div 3600,
                      (WholeSecondOfDay(seconds) \div 60) % 60)

====
